---- MODULE Spec2Model ----
(***************************************************************************)
(* DepthCamera (torchcam/camera.py): the capture-process-display loop of   *)
(* run(), the scale property, __resize and capture, as a state machine.    *)
(* run() is followed statement by statement (pc names the statement about  *)
(* to execute); the scale setter and the collaborator's live_render flag   *)
(* may change between any two statements.                                  *)
(***************************************************************************)
EXTENDS Integers, Sequences, FiniteSets

VARIABLES
    pc,             \* statement of run() about to execute; "idle" outside run()
    is_running,     \* self.is_running
    scale,          \* self.__scale, a rational [num, den]
    camera,         \* self.camera: "open" or "released"
    resolution,     \* (height, width) of the frames the capture device delivers
    device,         \* self.estimator.device: a string, or "none" for a value without upper()
    live_render,    \* self.estimator.live_render
    frame,          \* local frame of run(): a reference into heap, or "none"
    display_frame,  \* local display_frame of run(): a reference, or "none"
    heap,           \* the image arrays the two locals may refer to
    window_label,   \* local window_label of run()
    key,            \* local key of run()
    elapsed,        \* frame_end_time - frame_start_time as line 105 took it last, in
                    \* ticks of perf_counter
    runs,           \* run() calls started so far
    exit,           \* how the last run() call ended: "none", "returned", "raised"
    reads,          \* camera.read() calls of the current run()
    shows,          \* main-window imshow calls of the current run()
    lastShow,       \* the latest main-window imshow call of the current run()
    prevShow,       \* the main-window imshow call before lastShow
    polls,          \* waitKey calls of the current run()
    caps,           \* capture() calls of the current run()
    lastCap,        \* what the last capture() call was handed and did
    releases,       \* camera.release() calls of the current run()
    destroys,       \* destroyAllWindows() calls of the current run()
    totalReleases,  \* camera.release() calls since construction
    readReleased,   \* camera.read() was called on a released handle
    clock,          \* the wall clock as capture() read it last in the current run(), in
                    \* half seconds since the first capture() of that run()
    log,            \* lines printed by run() itself in the current call, in order
    fault           \* statement that raised in the current run(), or "none"

vars == << pc, is_running, scale, camera, resolution, device, live_render, frame, display_frame,
           heap, window_label, key, elapsed, runs, exit, reads, shows, lastShow, prevShow, polls, caps,
           lastCap, releases, destroys, totalReleases, readReleased, clock,
           log, fault >>

\* ------------------------------------------------------------------ bounds
MaxRuns == 2        \* run() calls on one object
MaxIter == 2        \* loop iterations (frame reads) per run() call
MaxClock == 2       \* latest wall-clock reading, in half seconds after the first one

\* --------------------------------------------------------- program constants
KeySpace == 32      \* key == 32
KeyEsc == 27        \* key == 27
KeyQ == 113         \* ord("q")
NoKey == -1         \* cv2.waitKey(10) timing out

\* Keys cv2.waitKey can return: none, space, Esc, q, and 'Q' (81) as one other key.
Keys == {NoKey, KeySpace, KeyEsc, KeyQ, 81}

\* Scale factors as exact rationals: -0.5, 0.25, 1.0, 1.5.
Scales == { [num |-> -1, den |-> 2], [num |-> 1, den |-> 4],
            [num |-> 1, den |-> 1],  [num |-> 3, den |-> 2] }

\* (height, width) of the frames a capture device may deliver.
FrameDims == { <<2, 3>>, <<480, 640>> }

\* Values of the estimator's device attribute: the name of a compute device,
\* or "none" for one that is no string.
Devices == {"cpu", "none"}

Refs == {"raw", "map"}

NoImage == [h |-> 0, w |-> 0, text |-> FALSE, seq |-> 0]

NoShow == [title |-> "", image |-> NoImage, of |-> "none", scale |-> [num |-> 0, den |-> 1]]

NoCapture == [seq |-> 0, text |-> FALSE, h |-> 0, w |-> 0, window |-> FALSE]

\* ------------------------------------------------------------- pure helpers

\* Python's round() of the exact value n/d (d > 0): nearest integer, ties to even.
PyRound(n, d) ==
    LET q == n \div d
        r == n % d
    IN  IF 2 * r < d THEN q
        ELSE IF 2 * r > d THEN q + 1
        ELSE IF q % 2 = 0 THEN q ELSE q + 1

\* Mutant of NewDimensions: width and height handed over in the wrong order.
NewDimensions_swapped(h, w, factor) ==
    << PyRound(w * factor.num, factor.den), PyRound(h * factor.num, factor.den) >>

\* new_dimensions of __resize, as the (height, width) of the image asked for.
NewDimensions(h, w, factor) ==
    << PyRound(h * factor.num, factor.den), PyRound(w * factor.num, factor.den) >>

\* cv2.resize rejects a target with a dimension that is not positive.
ResizeOk(h, w, factor) ==
    /\ NewDimensions(h, w, factor)[1] > 0
    /\ NewDimensions(h, w, factor)[2] > 0

\* What perf_counter() can give for frame_end_time - frame_start_time: the
\* counter does not run back, and two readings may coincide.
Elapsed == {0, 1}

\* Mutant of FpsRaises: a zero elapsed time is divided by like any other.
FpsRaises_never(dt) == FALSE

\* fps = round(1 / (frame_end_time - frame_start_time)) raises ZeroDivisionError.
FpsRaises(dt) == dt = 0

\* dt.datetime.now().strftime("%H:%M:%S") of the wall-clock reading t: the
\* whole second, the fraction dropped.
Timestamp(t) == t \div 2

IsSpaceKey(k) == k = KeySpace

\* Mutant of IsQuitKey: only Escape ends the loop.
IsQuitKey_escOnly(k) == k = KeyEsc

\* Mutant of IsQuitKey: the spacebar falls through to the quit branch too.
IsQuitKey_orSpace(k) == k = KeyEsc \/ k = KeyQ \/ k = KeySpace

\* Mutant of IsQuitKey: every key but the spacebar ends the loop.
IsQuitKey_anyKey(k) == k # NoKey /\ k # KeySpace

IsQuitKey(k) == k = KeyEsc \/ k = KeyQ

\* Mutant of CaptureGuard: the live-render test is forgotten.
CaptureGuard_anyMode(k, live) == k = KeySpace

\* The guard of the capture call: spacebar and live-render inactive.
CaptureGuard(k, live) == IsSpaceKey(k) /\ ~live

\* --------------------------------------------------------------------- Init
Init ==
    /\ pc = "idle"
    /\ is_running = FALSE
    /\ scale \in Scales
    /\ camera = "open"
    /\ resolution \in FrameDims
    /\ device \in Devices
    /\ live_render \in BOOLEAN
    /\ frame = "none"
    /\ display_frame = "none"
    /\ heap = [r \in Refs |-> NoImage]
    /\ window_label = ""
    /\ key = NoKey
    /\ elapsed = 0
    /\ runs = 0
    /\ exit = "none"
    /\ reads = 0
    /\ shows = 0
    /\ lastShow = NoShow
    /\ prevShow = NoShow
    /\ polls = 0
    /\ caps = 0
    /\ lastCap = NoCapture
    /\ releases = 0
    /\ destroys = 0
    /\ totalReleases = 0
    /\ readReleased = FALSE
    /\ clock = 0
    /\ log = << >>
    /\ fault = "none"

\* ------------------------------------------------------------ state groups
object == << is_running, scale, camera, resolution, device, live_render >>
locals == << frame, display_frame, heap, window_label, key, elapsed >>
calls  == << reads, shows, lastShow, prevShow, polls, caps, lastCap, releases, destroys,
             totalReleases, readReleased >>
titles == << clock >>

\* An exception raised by statement `at` inside the try block: control moves to
\* the except clause.
Raise(at) ==
    /\ pc' = "except"
    /\ fault' = at

\* Mutant of ScaleRead: the scale of the first displayed frame is kept for the
\* rest of the run.
ScaleRead_stale == IF shows > 0 THEN lastShow.scale ELSE scale

\* The scale property: return self.__scale, evaluated where run() uses it.
ScaleRead == scale

\* The locals of run() once the iteration that set them is over: none is read
\* again before it is assigned again, so they are kept at their initial values.
LocalsDead ==
    /\ frame' = "none"
    /\ display_frame' = "none"
    /\ heap' = [r \in Refs |-> NoImage]
    /\ window_label' = ""
    /\ key' = NoKey
    /\ elapsed' = 0

\* The image array cv2.imshow is handed by run(): __resize of `image`.
Resize(image, factor) ==
    [ h    |-> NewDimensions(image.h, image.w, factor)[1],
      w    |-> NewDimensions(image.h, image.w, factor)[2],
      text |-> image.text,
      seq  |-> image.seq ]

\* The array passed to __resize after the call: cv2.resize returns a new array.
ResizeInput(image, factor) == image

\* The array the estimator's colormap returns for `image`: a new array of the
\* same dimensions, without the text drawn on the main window's frame.
Colormap(image) == [h |-> image.h, w |-> image.w, text |-> FALSE, seq |-> image.seq]

\* -------------------------------------------------------------------- run()

\* self.is_running = True
Run_Start ==
    /\ pc = "idle"
    /\ runs < MaxRuns
    /\ pc' = "device"
    /\ is_running' = TRUE
    /\ runs' = runs + 1
    /\ exit' = "none"
    /\ frame' = "none"
    /\ display_frame' = "none"
    /\ heap' = [r \in Refs |-> NoImage]
    /\ window_label' = ""
    /\ key' = NoKey
    /\ elapsed' = 0
    /\ reads' = 0
    /\ shows' = 0
    /\ lastShow' = NoShow
    /\ prevShow' = NoShow
    /\ polls' = 0
    /\ caps' = 0
    /\ lastCap' = NoCapture
    /\ releases' = 0
    /\ destroys' = 0
    /\ log' = << >>
    /\ fault' = "none"
    /\ clock' = 0
    /\ UNCHANGED << scale, camera, resolution, device, live_render, totalReleases, readReleased >>

\* self.estimator.device.upper() raises AttributeError.
DeviceUpperRaises(d) == d = "none"

\* print(f'[{self.estimator.device.upper()}] Running depth scan...'), outside
\* the try block: if it raises, the exception leaves run().
Run_LogDevice ==
    /\ UNCHANGED titles
    /\ pc = "device"
    /\ IF DeviceUpperRaises(device)
       THEN /\ pc' = "idle"
            /\ exit' = "raised"
            /\ fault' = "device"
            /\ UNCHANGED log
       ELSE /\ log' = Append(log, "running")
            /\ pc' = "while"
            /\ UNCHANGED << exit, fault >>
    /\ UNCHANGED << object, locals, calls, runs >>

\* while self.is_running:
Run_While ==
    /\ UNCHANGED titles
    /\ pc = "while"
    /\ pc' = IF is_running THEN "read" ELSE "release"
    /\ UNCHANGED << object, locals, calls, runs, exit, log, fault >>

\* frame_start_time = perf_counter(); ret, frame = self.camera.read()
Run_Read ==
    /\ UNCHANGED << titles, elapsed >>
    /\ pc = "read"
    /\ reads < MaxIter
    /\ reads' = reads + 1
    /\ readReleased' = (readReleased \/ camera = "released")
    /\ \/ /\ camera = "open"
          /\ heap' = [ r \in Refs |->
                         IF r = "raw"
                         THEN [ h |-> resolution[1], w |-> resolution[2],
                                text |-> FALSE, seq |-> reads + 1 ]
                         ELSE NoImage ]
          /\ frame' = "raw"
          /\ pc' = "colormap"
          /\ UNCHANGED fault
       \/ /\ frame' = "none"
          /\ heap' = [r \in Refs |-> NoImage]
          /\ pc' = "colormap"
          /\ UNCHANGED fault
       \/ /\ camera = "open"
          /\ Raise("read")
          /\ UNCHANGED << frame, heap >>
    /\ display_frame' = "none"
    /\ UNCHANGED << object, window_label, key, shows, lastShow, prevShow, polls, caps, lastCap,
                    releases, destroys, totalReleases, runs, exit, log >>

\* display_frame = self.estimator.colormap(frame) if self.estimator.live_render else frame
Run_Colormap ==
    /\ UNCHANGED << titles, elapsed >>
    /\ pc = "colormap"
    /\ IF live_render
       THEN \/ /\ frame # "none"
               /\ display_frame' = "map"
               /\ heap' = [heap EXCEPT !["map"] = Colormap(heap[frame])]
               /\ pc' = "fps"
               /\ UNCHANGED fault
            \/ /\ Raise("colormap")
               /\ UNCHANGED << display_frame, heap >>
       ELSE /\ display_frame' = frame
            /\ pc' = "fps"
            /\ UNCHANGED << heap, fault >>
    /\ UNCHANGED << object, frame, window_label, key, calls, runs, exit, log >>

\* frame_end_time = perf_counter(); fps = round(1 / (end - start));
\* window_label = "Depth Capture" if self.estimator.live_render else "Standard Camera"
Run_Fps ==
    /\ UNCHANGED titles
    /\ pc = "fps"
    /\ \E dt \in Elapsed :
          /\ elapsed' = dt
          /\ IF FpsRaises(dt)
             THEN /\ Raise("fps")
                  /\ UNCHANGED window_label
             ELSE /\ window_label' = IF live_render THEN "Depth Capture" ELSE "Standard Camera"
                  /\ pc' = "putText"
                  /\ UNCHANGED fault
    /\ UNCHANGED << object, frame, display_frame, heap, key, calls, runs, exit,
                    log >>

\* Mutant of Run_PutText: the frame is annotated but the key is polled before
\* the frame is shown.
Run_PutText_thenPoll ==
    /\ UNCHANGED << titles, elapsed >>
    /\ pc = "putText"
    /\ IF display_frame = "none"
       THEN /\ Raise("putText")
            /\ UNCHANGED heap
       ELSE /\ heap' = [heap EXCEPT ![display_frame].text = TRUE]
            /\ pc' = "waitKey"
            /\ UNCHANGED fault
    /\ UNCHANGED << object, frame, display_frame, window_label, key, calls, runs,
                    exit, log >>

\* cv2.putText(display_frame, f'FPS: {fps}', ...): draws on the array in place.
Run_PutText ==
    /\ UNCHANGED << titles, elapsed >>
    /\ pc = "putText"
    /\ IF display_frame = "none"
       THEN /\ Raise("putText")
            /\ UNCHANGED heap
       ELSE /\ heap' = [heap EXCEPT ![display_frame].text = TRUE]
            /\ pc' = "imshow"
            /\ UNCHANGED fault
    /\ UNCHANGED << object, frame, display_frame, window_label, key, calls, runs,
                    exit, log >>

\* cv2.imshow(window_label, self.__resize(display_frame, factor=self.scale))
Run_Imshow ==
    /\ UNCHANGED << titles, elapsed >>
    /\ pc = "imshow"
    /\ IF ~ResizeOk(heap[display_frame].h, heap[display_frame].w, ScaleRead)
       THEN /\ Raise("resize")
            /\ UNCHANGED << shows, lastShow, prevShow, heap >>
       ELSE /\ heap' = [heap EXCEPT ![display_frame] = ResizeInput(@, ScaleRead)]
            /\ \/ /\ shows' = shows + 1
                  /\ lastShow' = [ title |-> window_label,
                                   image |-> Resize(heap[display_frame], ScaleRead),
                                   of    |-> display_frame,
                                   scale |-> ScaleRead ]
                  /\ prevShow' = lastShow
                  /\ pc' = "waitKey"
                  /\ UNCHANGED fault
               \/ /\ Raise("imshow")
                  /\ UNCHANGED << shows, lastShow, prevShow >>
    /\ UNCHANGED << object, frame, display_frame, window_label, key, reads, polls,
                    caps, lastCap, releases, destroys, totalReleases, readReleased,
                    runs, exit, log >>

\* key = cv2.waitKey(10)
Run_WaitKey ==
    /\ UNCHANGED << titles, elapsed >>
    /\ pc = "waitKey"
    /\ \/ /\ \E k \in Keys : key' = k
          /\ polls' = polls + 1
          /\ pc' = "space"
          /\ UNCHANGED fault
       \/ /\ Raise("waitKey")
          /\ UNCHANGED << key, polls >>
    /\ UNCHANGED << object, frame, display_frame, heap, window_label, reads, shows, lastShow, prevShow,
                    caps, lastCap, releases, destroys, totalReleases, readReleased,
                    runs, exit, log >>

\* The readings dt.datetime.now() can give capture(): time is counted from the
\* first capture() of the run, taken to fall on the start of a wall-clock
\* second, and never runs back.
ClockReadings(n, last) == IF n = 0 THEN {0} ELSE last .. MaxClock

\* What capture(frame) is handed, as the record kept of the call: the array
\* `frame` refers to as it is at the call, and whether its window was opened.
CaptureRecord(image, ok) ==
    [seq |-> image.seq, text |-> image.text, h |-> image.h, w |-> image.w, window |-> ok]

\* if key == 32 and not self.estimator.live_render: self.capture(frame)
\* capture: colored_map = self.estimator.colormap(frame); print(...);
\* cv2.imshow(f'Depth Scan - {timestamp}', colored_map)
Run_Space ==
    /\ pc = "space"
    /\ IF CaptureGuard(key, live_render)
       THEN /\ caps' = caps + 1
            /\ \/ /\ frame # "none"
                  /\ \E now \in ClockReadings(caps, clock) : clock' = now
                        /\ lastCap' = CaptureRecord(heap[frame], TRUE)
                  /\ pc' = "quit"
                  /\ UNCHANGED fault
               \/ /\ lastCap' = CaptureRecord(IF frame = "none" THEN NoImage ELSE heap[frame],
                                               FALSE)
                  /\ Raise("capture")
                  /\ UNCHANGED titles
       ELSE /\ pc' = "quit"
            /\ UNCHANGED << caps, lastCap, fault, titles >>
    /\ UNCHANGED << log, object, locals, reads, shows, lastShow, prevShow, polls, releases, destroys,
                    totalReleases, readReleased, runs, exit >>

\* Mutant of Run_Quit: the quit branch has no break, the loop test ends the loop.
Run_Quit_noBreak ==
    /\ UNCHANGED titles
    /\ pc = "quit"
    /\ IF IsQuitKey(key)
       THEN /\ log' = Append(log, "closing")
            /\ is_running' = FALSE
       ELSE UNCHANGED << log, is_running >>
    /\ pc' = "while"
    /\ LocalsDead
    /\ UNCHANGED << scale, camera, resolution, device, live_render, calls, runs, exit, fault >>

\* if key == 27 or key == ord("q"): print("Closing scanner...");
\* self.is_running = False; break
Run_Quit ==
    /\ UNCHANGED titles
    /\ pc = "quit"
    /\ IF IsQuitKey(key)
       THEN /\ log' = Append(log, "closing")
            /\ is_running' = FALSE
            /\ pc' = "release"
       ELSE /\ pc' = "while"
            /\ UNCHANGED << log, is_running >>
    /\ LocalsDead
    /\ UNCHANGED << scale, camera, resolution, device, live_render, calls, runs, exit, fault >>

\* Mutant of Run_Except: the error is logged and the loop is entered again.
Run_Except_retry ==
    /\ UNCHANGED titles
    /\ pc = "except"
    /\ log' = Append(log, "error")
    /\ pc' = "while"
    /\ LocalsDead
    /\ UNCHANGED << object, calls, runs, exit, fault >>

\* Mutant of Run_Except: the exception is swallowed without a log line.
Run_Except_silent ==
    /\ UNCHANGED titles
    /\ pc = "except"
    /\ pc' = "release"
    /\ LocalsDead
    /\ UNCHANGED << object, calls, runs, exit, fault, log >>

\* except Exception as e: print(f'Error during camera streaming: {e}')
Run_Except ==
    /\ UNCHANGED titles
    /\ pc = "except"
    /\ log' = Append(log, "error")
    /\ pc' = "release"
    /\ LocalsDead
    /\ UNCHANGED << object, calls, runs, exit, fault >>

\* Mutant of Run_Release: the release is skipped once the loop has stopped
\* itself, as if it were part of the except clause only.
Run_Release_onErrorOnly ==
    /\ UNCHANGED titles
    /\ pc = "release"
    /\ camera' = IF fault = "none" THEN camera ELSE "released"
    /\ releases' = IF fault = "none" THEN releases ELSE releases + 1
    /\ totalReleases' = IF fault = "none" THEN totalReleases ELSE totalReleases + 1
    /\ pc' = "destroy"
    /\ UNCHANGED << is_running, scale, resolution, device, live_render, locals, reads, shows,
                    lastShow, prevShow, polls, caps, lastCap, destroys, readReleased,
                    runs, exit, log, fault >>

\* finally: self.camera.release()
Run_Release ==
    /\ UNCHANGED titles
    /\ pc = "release"
    /\ camera' = "released"
    /\ releases' = releases + 1
    /\ totalReleases' = totalReleases + 1
    /\ pc' = "destroy"
    /\ UNCHANGED << is_running, scale, resolution, device, live_render, locals, reads, shows, lastShow, prevShow, polls,
                    caps, lastCap, destroys, readReleased, runs, exit, log, fault >>

\* finally: cv2.destroyAllWindows()
Run_Destroy ==
    /\ UNCHANGED titles
    /\ pc = "destroy"
    /\ destroys' = destroys + 1
    /\ pc' = "closed"
    /\ UNCHANGED << object, locals, reads, shows, lastShow, prevShow, polls, caps, lastCap, releases,
                    totalReleases, readReleased, runs, exit, log, fault >>

\* print("Scanner closed!"), then run() returns.
Run_Closed ==
    /\ UNCHANGED titles
    /\ pc = "closed"
    /\ log' = Append(log, "closed")
    /\ pc' = "idle"
    /\ exit' = "returned"
    /\ UNCHANGED << object, locals, calls, runs, fault >>

\* ------------------------------------------------- operations from outside

\* The scale setter: self.__scale = new_scale_factor, whatever run() is doing.
SetScale(new_scale_factor) ==
    /\ UNCHANGED titles
    /\ scale # new_scale_factor
    /\ scale' = new_scale_factor
    /\ UNCHANGED << pc, is_running, camera, resolution, device, live_render, locals, calls,
                    runs, exit, log, fault >>

\* The collaborator's live_render flag changes (a mode switch).
SetLiveRender ==
    /\ UNCHANGED titles
    /\ live_render' = ~live_render
    /\ UNCHANGED << pc, is_running, scale, camera, resolution, device, locals, calls, runs,
                    exit, log, fault >>

Next ==
    \/ Run_Start
    \/ Run_LogDevice
    \/ Run_While
    \/ Run_Read
    \/ Run_Colormap
    \/ Run_Fps
    \/ Run_PutText
    \/ Run_Imshow
    \/ Run_WaitKey
    \/ Run_Space
    \/ Run_Quit
    \/ Run_Except
    \/ Run_Release
    \/ Run_Destroy
    \/ Run_Closed
    \/ \E v \in Scales : SetScale(v)
    \/ SetLiveRender

Spec == Init /\ [][Next]_vars

\* The object in standard mode: built with scale 1.0 on an estimator whose
\* live_render is False, and neither of the two is changed afterwards.
ScaleOne == [num |-> 1, den |-> 1]

InitStandard == Init /\ ~live_render /\ scale = ScaleOne

NextStandard ==
    \/ Run_Start
    \/ Run_LogDevice
    \/ Run_While
    \/ Run_Read
    \/ Run_Colormap
    \/ Run_Fps
    \/ Run_PutText
    \/ Run_Imshow
    \/ Run_WaitKey
    \/ Run_Space
    \/ Run_Quit
    \/ Run_Except
    \/ Run_Release
    \/ Run_Destroy
    \/ Run_Closed

SpecStandard == InitStandard /\ [][NextStandard]_vars

\* ------------------------------------------------------------------ claims

\* Statements of the loop body, and of the teardown that follows the loop.
BodyPcs == {"read", "colormap", "fps", "putText", "imshow", "waitKey", "space", "quit"}
TeardownPcs == {"release", "destroy", "closed"}

\* run() has returned (it was not left by an exception of its own).
Returned == pc = "idle" /\ exit = "returned"

\* A statement of the loop body raised in the current run().
BodyFault == fault \notin {"none", "device"}

\* C1: in every run() call camera.release() and cv2.destroyAllWindows() are each
\* called exactly once, however the loop ends: none before the loop is left,
\* one release and then one window close after it, and one of each when run()
\* has returned.
C1_TeardownOncePerRun ==
    /\ pc \in BodyPcs \cup {"device", "while", "except", "release"}
          => releases = 0 /\ destroys = 0
    /\ pc = "destroy" => releases = 1 /\ destroys = 0
    /\ pc = "closed" => releases = 1 /\ destroys = 1
    /\ Returned => releases = 1 /\ destroys = 1

\* C1 witness: a run() whose frame read raised has returned after one release
\* and one window close.
C1_Witness ==
    /\ Returned
    /\ fault = "read"
    /\ releases = 1
    /\ destroys = 1

\* C2 (as claimed): since construction the camera handle is released at most
\* once, and camera.read() is never called on a released handle.
C2_ReleasedOnceNeverReadAfter ==
    /\ totalReleases <= 1
    /\ ~readReleased

\* C3 (as claimed): is_running is False after construction, True while run()
\* executes its loop, and False whenever run() has returned.
C3_StoppedWheneverReturned ==
    /\ runs = 0 => ~is_running
    /\ pc \in BodyPcs \cup {"device", "while"} => is_running
    /\ Returned => ~is_running

\* C4 (as claimed): whenever run() calls capture(), the array it hands over is
\* the frame read in this iteration, at the device's resolution (not scaled),
\* without the 'FPS: n' text on it.
C4_CaptureGetsUnannotatedFrame ==
    [][ caps' = caps + 1 =>
            /\ lastCap'.seq = reads
            /\ lastCap'.h = resolution[1]
            /\ lastCap'.w = resolution[2]
            /\ ~lastCap'.text ]_vars

\* C5: capture() is only ever called at a moment when live_render is false, so
\* a run() during which live_render stays true never calls capture(), whatever
\* keys are polled.
C5_NoCaptureWhileLiveRender ==
    [][ caps' > caps => ~live_render ]_vars

\* C5 witness: the spacebar was polled and its test is past, live_render is
\* true, and this run() has not called capture().
C5_Witness ==
    /\ pc = "quit"
    /\ key = KeySpace
    /\ live_render
    /\ caps = 0
    /\ polls > 0

\* The statement at pc is executed by this step.
Leaves(p) == pc = p /\ pc' # p

\* Line 111 holds for the polled key: spacebar, live-render inactive.
SpaceCase == key = 32 /\ ~live_render

\* What the steps after a spacebar capture do, as C6 states them: the quit test
\* falls through to the loop test, the loop test enters the body again, and the
\* body starts by reading a frame.
C6_LoopGoesOn ==
    /\ Leaves("space") /\ ~SpaceCase => caps' = caps
    /\ ~Leaves("space") => caps' = caps \/ pc' = "device"
    /\ Leaves("quit") /\ key = 32 =>
          pc' = "while" /\ is_running' /\ releases' = 0 /\ destroys' = 0
    /\ Leaves("while") => pc' = "read"
    /\ Leaves("read") => reads' = reads + 1

\* C6 (as claimed): with live-render inactive, an iteration in which the
\* spacebar is polled makes exactly one capture() call, which opens one
\* separate window, and afterwards the loop continues: is_running is still
\* True, no teardown has happened, and the next iteration reads a new frame.
C6_SpaceCapturesOnceLoopContinues ==
    [][ /\ Leaves("space") /\ SpaceCase =>
              /\ caps' = caps + 1
              /\ lastCap'.window
              /\ pc' = "quit"
              /\ is_running' /\ releases' = 0 /\ destroys' = 0
        /\ C6_LoopGoesOn ]_vars

\* C6 (amended): with live-render inactive, an iteration in which the spacebar
\* is polled makes exactly one capture() call and no main-window display. If
\* the call returns it has opened one separate window and the loop continues
\* (is_running True, no teardown, the next iteration reads a new frame); if it
\* raises, no window is opened and control is in the except clause.
C6_SpaceCapturesOnceLoopContinuesUnlessRaised ==
    [][ /\ Leaves("space") /\ SpaceCase =>
              /\ caps' = caps + 1
              /\ shows' = shows
              /\ is_running' /\ releases' = 0 /\ destroys' = 0
              /\ \/ lastCap'.window /\ pc' = "quit" /\ fault' = "none"
                 \/ ~lastCap'.window /\ pc' = "except" /\ fault' = "capture"
        /\ C6_LoopGoesOn ]_vars

\* C6 witness: the first iteration captured on the spacebar, and the second
\* iteration has read its frame with the loop still running.
C6_Witness ==
    /\ pc = "colormap"
    /\ reads = 2
    /\ frame = "raw"
    /\ caps = 1
    /\ lastCap.window
    /\ lastCap.seq = 1
    /\ is_running
    /\ releases = 0

\* Escape or 'q' is the key polled in the iteration in progress.
QuitPolled == pc \in {"space", "quit"} /\ key \in {27, 113}

\* C7: once Escape or 'q' is polled, the same iteration ends the loop: the
\* spacebar test passes without a capture, the quit test logs the shutdown
\* notice, sets is_running to False and goes to teardown, and from the poll
\* to the end of teardown there is no frame read, display, key poll or capture.
C7_QuitEndsLoopInSameIteration ==
    [][ /\ QuitPolled \/ (pc \in TeardownPcs /\ fault = "none") =>
              reads' = reads /\ shows' = shows /\ polls' = polls /\ caps' = caps
        /\ QuitPolled /\ Leaves("space") => pc' = "quit" /\ key' = key
        /\ QuitPolled /\ Leaves("quit") =>
              /\ pc' = "release"
              /\ ~is_running'
              /\ log' = Append(log, "closing") ]_vars

\* C7 witness: the quit key of the first iteration has ended the loop; the
\* shutdown notice is logged, is_running is False, teardown is about to start.
C7_Witness ==
    /\ pc = "release"
    /\ fault = "none"
    /\ ~is_running
    /\ log = << "running", "closing" >>
    /\ reads = 1 /\ shows = 1 /\ polls = 1 /\ caps = 0

\* Number of error lines run() has printed in the current call.
ErrorLines == Cardinality({ i \in DOMAIN log : log[i] = "error" })

Nearest(r, n, d) ==
    LET diff == IF n >= r * d THEN n - r * d ELSE r * d - n
    IN  2 * diff <= d

\* C9: the scale is read when a frame is displayed: a displayed frame has the
\* device's dimensions times the scale in force at that moment, rounded to a
\* nearest integer; a set_scale call changes only the scale (frames already
\* displayed keep their dimensions, the loop is not disturbed); and the setter
\* can be called with any value in every state, loop running or stopped.
C9_ScaleReadFreshEachIteration ==
    /\ [](\A v \in Scales \ {scale} : ENABLED SetScale(v))
    /\ [][ /\ shows' = shows + 1 =>
                 /\ Nearest(lastShow'.image.h, resolution[1] * scale.num, scale.den)
                 /\ Nearest(lastShow'.image.w, resolution[2] * scale.num, scale.den)
                 /\ lastShow'.scale = scale
                 /\ prevShow' = lastShow
           /\ shows' = shows => lastShow' = lastShow /\ prevShow' = prevShow
           /\ scale' # scale =>
                 UNCHANGED << pc, is_running, camera, shows, lastShow, prevShow, fault >> ]_vars

\* C9 witness: two frames displayed in a running loop, the scale changed
\* between them, and the two displayed frames differ in height.
C9_Witness ==
    /\ shows = 2
    /\ is_running
    /\ prevShow.scale # lastShow.scale
    /\ prevShow.scale.num > 0
    /\ lastShow.scale.num > 0
    /\ prevShow.image.h # lastShow.image.h

\* Python's rounding of n/d (n >= 0, d > 0), stated by its property: the nearest
\* integer, and of two equally near ones the even one.
RoundHalfEven(n, d) ==
    CHOOSE r \in 0 .. (n + d) :
        LET diff == IF n >= r * d THEN n - r * d ELSE r * d - n
        IN  2 * diff < d \/ (2 * diff = d /\ r % 2 = 0)

\* C10 (as claimed): for every positive factor, __resize yields an image of
\* dimensions (round(h*factor), round(w*factor)), also when a rounded
\* dimension is 0; factor 1.0 keeps (h, w); the input array is not changed.
C10_ResizeForEveryPositiveFactor ==
    [][ Leaves("imshow") /\ scale.num > 0 =>
            LET img == heap[display_frame]
            IN  /\ fault' # "resize"
                /\ shows' = shows + 1 =>
                      /\ lastShow'.image.h = RoundHalfEven(img.h * scale.num, scale.den)
                      /\ lastShow'.image.w = RoundHalfEven(img.w * scale.num, scale.den)
                /\ shows' = shows + 1 /\ scale.num = scale.den =>
                      lastShow'.image.h = img.h /\ lastShow'.image.w = img.w
                /\ heap'[display_frame] = img ]_vars

\* C10 (amended): for every positive factor whose rounded dimensions are both
\* at least 1, __resize yields an image of dimensions (round(h*factor),
\* round(w*factor)); when a rounded dimension is 0 it raises and no image is
\* displayed; factor 1.0 keeps (h, w); the input array is not changed.
C10_ResizeForPositiveFactorNonEmptyTarget ==
    [][ Leaves("imshow") /\ scale.num > 0 =>
            LET img == heap[display_frame]
                eh  == RoundHalfEven(img.h * scale.num, scale.den)
                ew  == RoundHalfEven(img.w * scale.num, scale.den)
            IN  /\ eh >= 1 /\ ew >= 1 =>
                      /\ fault' # "resize"
                      /\ shows' = shows + 1 =>
                            lastShow'.image.h = eh /\ lastShow'.image.w = ew
                /\ eh < 1 \/ ew < 1 =>
                      fault' = "resize" /\ pc' = "except" /\ shows' = shows
                /\ shows' = shows + 1 /\ scale.num = scale.den =>
                      lastShow'.image.h = img.h /\ lastShow'.image.w = img.w
                /\ heap'[display_frame] = img ]_vars

\* C10 witness: a 2 x 3 frame displayed at factor 1.5 as 3 x 4 (4.5 rounds to
\* the even 4), the array it was made from still 2 x 3.
C10_Witness ==
    /\ pc = "waitKey"
    /\ resolution = << 2, 3 >>
    /\ lastShow.scale = [num |-> 3, den |-> 2]
    /\ lastShow.image.h = 3
    /\ lastShow.image.w = 4
    /\ heap[display_frame].h = 2
    /\ heap[display_frame].w = 3

\* The title of the capture window opened at wall-clock reading t:
\* f'Depth Scan - {timestamp}'.
CaptureTitle(t) == << "Depth Scan - ", Timestamp(t) >>

\* C11 (as claimed): every capture window is opened under a title that no
\* capture window opened before it carries, also when two capture() calls fall
\* into the same wall-clock second. The wall clock does not go back, so the
\* only earlier title a new one can repeat is that of the latest capture
\* window, whose clock reading is the value of clock before the call.
C11_CaptureTitlesUnique ==
    [][ caps' = caps + 1 /\ lastCap'.window /\ lastCap.window =>
            CaptureTitle(clock') # CaptureTitle(clock) ]_vars

\* C12 (as claimed): the scale factor is greater than zero in every reachable
\* state, after construction and after any sequence of set_scale calls.
C12_ScalePositive == scale.num > 0

Logged(line) == \E i \in 1 .. Len(log) : log[i] = line

\* C14: in a run() with live_render False and scale 1.0 each iteration reads,
\* then shows, then polls; every main-window show is titled "Standard Camera"
\* and has the frame's own height and width; once the quit key has been polled
\* every frame read has been shown (n reads, n shows, n polls), the shutdown
\* notice is printed before the teardown, and the teardown follows.
C14_StandardRunShowsEachFrameThenQuits ==
    /\ shows <= reads /\ polls <= shows /\ reads <= polls + 1
    /\ pc \in {"space", "quit"} => shows = reads /\ polls = reads
    /\ lastShow # NoShow =>
          /\ lastShow.title = "Standard Camera"
          /\ lastShow.of = "raw"
          /\ lastShow.image.seq = shows
          /\ << lastShow.image.h, lastShow.image.w >> = resolution
    /\ Logged("closing") =>
          /\ fault = "none"
          /\ shows = reads /\ polls = reads
          /\ log[2] = "closing"
          /\ pc \in TeardownPcs \/ Returned
    /\ pc \in TeardownPcs /\ fault = "none" => Logged("closing")
    /\ Returned /\ fault = "none" =>
          /\ log = << "running", "closing", "closed" >>
          /\ releases = 1 /\ destroys = 1

\* C14 witness: a standard-mode run() on a 480 x 640 device has returned after
\* two reads, two shows of 480 x 640 titled "Standard Camera", and the quit key
\* polled in the second iteration.
C14_Witness ==
    /\ Returned
    /\ fault = "none"
    /\ resolution = << 480, 640 >>
    /\ reads = 2 /\ shows = 2 /\ polls = 2
    /\ prevShow.title = "Standard Camera" /\ prevShow.image.h = 480 /\ prevShow.image.w = 640
    /\ lastShow.title = "Standard Camera" /\ lastShow.image.h = 480 /\ lastShow.image.w = 640
    /\ log = << "running", "closing", "closed" >>

\* C15: the FPS computation raises exactly when the elapsed time is zero, and
\* the raise is a streaming error like any other: the iteration it happens in
\* shows no frame and polls no key, nothing is read, shown, polled or captured
\* afterwards, the except clause logs the error, and the teardown runs (one
\* release, one window close, the closed notice) before run() returns.
C15_ZeroElapsedIsStreamingError ==
    [][ /\ Leaves("fps") => (elapsed' = 0 <=> pc' = "except" /\ fault' = "fps")
        /\ fault' = "fps" =>
              /\ pc' \in {"except"} \cup TeardownPcs \/ Returned'
              /\ shows' = reads' - 1 /\ polls' = reads' - 1
              /\ pc' # "except" => log' # << >> /\ log'[2] = "error"
              /\ pc' = "release" => releases' = 0
              /\ Returned' =>
                    /\ log' = << "running", "error", "closed" >>
                    /\ releases' = 1 /\ destroys' = 1
        /\ fault = "fps" /\ fault' = "fps" =>
              /\ reads' = reads /\ shows' = shows /\ polls' = polls /\ caps' = caps
              /\ Leaves("except") => pc' = "release"
              /\ Leaves("release") => pc' = "destroy"
              /\ Leaves("destroy") => pc' = "closed"
              /\ Leaves("closed") => Returned' ]_vars

\* C15 witness: run() has returned after its second iteration measured a zero
\* elapsed time: one frame shown, one key polled, the error logged, the
\* teardown done.
C15_Witness ==
    /\ Returned
    /\ fault = "fps"
    /\ reads = 2 /\ shows = 1 /\ polls = 1
    /\ releases = 1 /\ destroys = 1
    /\ log = << "running", "error", "closed" >>

\* The polled key is one run() has no use for: neither spacebar nor Escape nor
\* 'q' (the timed-out poll included), or the spacebar while live-render is on.
IgnoredKey ==
    \/ key \notin {KeySpace, KeyEsc, KeyQ}
    \/ key = KeySpace /\ live_render

C17_LoopLeftOnlyByQuitOrException ==
    [][ /\ pc' = "while" => is_running'
        /\ Leaves("while") => pc' = "read"
        /\ is_running /\ ~is_running' =>
              pc = "quit" /\ key \in {KeyEsc, KeyQ} /\ pc' = "release"
        /\ pc # "release" /\ pc' = "release" =>
              \/ pc = "quit" /\ key \in {KeyEsc, KeyQ}
              \/ pc = "except" /\ BodyFault
        /\ pc' \in TeardownPcs => Logged("closing")' \/ BodyFault' ]_vars

\* C17 witness: after two iterations without a quit key and without an
\* exception run() is at the loop test, running, and no teardown has begun.
C17_Witness ==
    /\ pc = "while"
    /\ reads = 2 /\ shows = 2 /\ polls = 2
    /\ fault = "none"
    /\ ~Logged("closing")
    /\ is_running
    /\ releases = 0 /\ destroys = 0

\* C18 (as claimed): every run() call that has set is_running to True performs
\* the teardown: once control has left run(), by return or by exception, the
\* camera has been released and the windows have been closed in that call,
\* also when the print of the estimator's device on line 97 raised.
C18_EveryStartedRunTearsDown ==
    pc = "idle" /\ runs > 0 => releases = 1 /\ destroys = 1

\* The line run() printed last.
LastLine == IF log = << >> THEN "" ELSE log[Len(log)]

\* A step of the run() call in progress (not the start of the next call).
SameRun == ~(pc = "idle" /\ pc' = "device")

====
